---- MODULE Spec2Model ----
(***************************************************************************)
(* Model of the EarlyStopping repository: the Landweber iteration class    *)
(* (src/src/EarlyStopping/landweber.py), the fractional-iteration          *)
(* interpolation of squared residual norms and the discrepancy stopping    *)
(* rule used by examples/plot_conjugate_gradients.py.                      *)
(*                                                                         *)
(* numpy's floating point numbers are modelled as exact rationals, a pair  *)
(* <<numerator, denominator>> in lowest terms with denominator > 0.        *)
(***************************************************************************)
EXTENDS Integers, Sequences, FiniteSets, TLC

VARIABLES
    self,                   \* the landweber instance: attribute name -> value
    ncalls,                 \* number of landw calls made so far
    requested,              \* sum of the iter_num of these calls
    op,                     \* name of the last operation that ran
    index,                  \* argument of the last interpolation call
    interpolated_residual,  \* its outcome: returned value or IndexError
    cg                      \* the model the stopping rule runs on

vars == <<self, ncalls, requested, op, index, interpolated_residual, cg>>

(***************************************************************************)
(* Bounds of the model.                                                    *)
(***************************************************************************)
MaxIter     == 4    \* total number of Landweber iterations of an instance
MaxIterNum  == 3    \* largest iter_num passed to one landw call
MaxCalls    == 2    \* number of landw calls on one instance
MaxTraceLen == 4    \* length of a residual trace given to the stopping rule
MaxResidual == 3    \* largest squared residual norm in such a trace

(***************************************************************************)
(* Exact rational arithmetic standing for numpy float arithmetic.          *)
(***************************************************************************)
None == <<>>

Abs(x) == IF x < 0 THEN -x ELSE x

RECURSIVE GCD(_, _)
GCD(a, b) == IF b = 0 THEN a ELSE GCD(b, a % b)

LCM(a, b) == (a \div GCD(a, b)) * b

Rat(n, d) == LET g == GCD(Abs(n), d) IN <<n \div g, d \div g>>

Zero == <<0, 1>>
One  == <<1, 1>>

RAdd(a, b) ==
    LET l == LCM(a[2], b[2])
    IN  Rat(a[1] * (l \div a[2]) + b[1] * (l \div b[2]), l)

RNeg(a) == <<-a[1], a[2]>>

RSub(a, b) == RAdd(a, RNeg(b))

RMul(a, b) ==
    LET g1 == GCD(Abs(a[1]), b[2])
        g2 == GCD(Abs(b[1]), a[2])
    IN  Rat((a[1] \div g1) * (b[1] \div g2), (a[2] \div g2) * (b[2] \div g1))

RDivInt(a, k) == RMul(a, <<1, k>>)

RLeq(a, b) ==
    LET l == LCM(a[2], b[2])
    IN  a[1] * (l \div a[2]) <= b[1] * (l \div b[2])

RLess(a, b) == RLeq(a, b) /\ a # b

RSquare(a) == RMul(a, a)

RFloor(a) == a[1] \div a[2]

RCeil(a) == -((-a[1]) \div a[2])

(***************************************************************************)
(* numpy array operations used by the class.                               *)
(***************************************************************************)
RECURSIVE SumSeq(_)
SumSeq(v) == IF v = <<>> THEN Zero ELSE RAdd(v[1], SumSeq(Tail(v)))

VecAdd(u, v) == [i \in 1..Len(u) |-> RAdd(u[i], v[i])]

VecSub(u, v) == [i \in 1..Len(u) |-> RSub(u[i], v[i])]

VecSquare(v) == [i \in 1..Len(v) |-> RSquare(v[i])]

Dot(M, v) == [i \in 1..Len(M) |-> SumSeq([j \in 1..Len(v) |-> RMul(M[i][j], v[j])])]

Transpose(M) == [j \in 1..Len(M[1]) |-> [i \in 1..Len(M) |-> M[i][j]]]

Zeros(n) == [i \in 1..n |-> Zero]

Mean(v) == RDivInt(SumSeq(v), Len(v))

(***************************************************************************)
(* class landweber                                                         *)
(***************************************************************************)
\* __init__: the attributes of a new instance.  mse exists only when a true
\* signal is given; no other risk attribute is ever created.
landweber(input_matrix, output_variable, true_signal) ==
    LET attributes ==
            [input_matrix    |-> input_matrix,
             output_variable |-> output_variable,
             true_signal     |-> true_signal,
             sample_size     |-> Len(input_matrix),
             para_size       |-> Len(input_matrix[1]),
             iter            |-> 0,
             landw_estimate  |-> Zeros(Len(input_matrix[1])),
             residual_vector |-> output_variable,
             residuals       |-> <<SumSeq(VecSquare(output_variable))>>]
    IN  IF true_signal # None
        THEN attributes @@ [mse |-> <<>>]
        ELSE attributes

\* __update_strong_error
update_strong_error(s) ==
    LET new_mse == Mean(VecSquare(VecSub(s.true_signal, s.landw_estimate)))
    IN  [s EXCEPT !.mse = Append(s.mse, new_mse)]

\* Variants of __landw_one_iteration with a slip in one statement.
landw_one_iteration_overwrites(s) ==
    LET landw_estimate ==
            VecAdd(s.landw_estimate,
                   Dot(Transpose(s.input_matrix),
                       VecSub(s.output_variable,
                              Dot(s.input_matrix, s.landw_estimate))))
        residual_vector ==
            VecSub(s.output_variable, Dot(s.input_matrix, landw_estimate))
        new_residuals == SumSeq(VecSquare(residual_vector))
        t == [s EXCEPT !.landw_estimate  = landw_estimate,
                       !.residual_vector = residual_vector,
                       !.residuals       = <<new_residuals>>,
                       !.iter            = s.iter + 1]
    IN  IF t.true_signal # None THEN update_strong_error(t) ELSE t

landw_one_iteration_stale_residual(s) ==
    LET landw_estimate ==
            VecAdd(s.landw_estimate,
                   Dot(Transpose(s.input_matrix),
                       VecSub(s.output_variable,
                              Dot(s.input_matrix, s.landw_estimate))))
        residual_vector ==
            VecSub(s.output_variable, Dot(s.input_matrix, s.landw_estimate))
        new_residuals == SumSeq(VecSquare(residual_vector))
        t == [s EXCEPT !.landw_estimate  = landw_estimate,
                       !.residual_vector = residual_vector,
                       !.residuals       = Append(s.residuals, new_residuals),
                       !.iter            = s.iter + 1]
    IN  IF t.true_signal # None THEN update_strong_error(t) ELSE t

landw_one_iteration_ascent(s) ==
    LET landw_estimate ==
            VecSub(s.landw_estimate,
                   Dot(Transpose(s.input_matrix),
                       VecSub(s.output_variable,
                              Dot(s.input_matrix, s.landw_estimate))))
        residual_vector ==
            VecSub(s.output_variable, Dot(s.input_matrix, landw_estimate))
        new_residuals == SumSeq(VecSquare(residual_vector))
        t == [s EXCEPT !.landw_estimate  = landw_estimate,
                       !.residual_vector = residual_vector,
                       !.residuals       = Append(s.residuals, new_residuals),
                       !.iter            = s.iter + 1]
    IN  IF t.true_signal # None THEN update_strong_error(t) ELSE t

landw_one_iteration_no_accumulation(s) ==
    LET landw_estimate ==
            Dot(Transpose(s.input_matrix),
                VecSub(s.output_variable,
                       Dot(s.input_matrix, s.landw_estimate)))
        residual_vector ==
            VecSub(s.output_variable, Dot(s.input_matrix, landw_estimate))
        new_residuals == SumSeq(VecSquare(residual_vector))
        t == [s EXCEPT !.landw_estimate  = landw_estimate,
                       !.residual_vector = residual_vector,
                       !.residuals       = Append(s.residuals, new_residuals),
                       !.iter            = s.iter + 1]
    IN  IF t.true_signal # None THEN update_strong_error(t) ELSE t

\* __landw_one_iteration
landw_one_iteration(s) ==
    LET landw_estimate ==
            VecAdd(s.landw_estimate,
                   Dot(Transpose(s.input_matrix),
                       VecSub(s.output_variable,
                              Dot(s.input_matrix, s.landw_estimate))))
        residual_vector ==
            VecSub(s.output_variable, Dot(s.input_matrix, landw_estimate))
        new_residuals == SumSeq(VecSquare(residual_vector))
        t == [s EXCEPT !.landw_estimate  = landw_estimate,
                       !.residual_vector = residual_vector,
                       !.residuals       = Append(s.residuals, new_residuals),
                       !.iter            = s.iter + 1]
    IN  IF t.true_signal # None THEN update_strong_error(t) ELSE t

\* A variant of landw that starts over from a new instance on every call.
landw_restarts(s, iter_num) ==
    LET run[k \in 0..(IF iter_num < 0 THEN 0 ELSE iter_num)] ==
            IF k = 0
            THEN landweber(s.input_matrix, s.output_variable, s.true_signal)
            ELSE landw_one_iteration(run[k - 1])
    IN  run[IF iter_num < 0 THEN 0 ELSE iter_num]

\* landw: for index in range(iter_num)
RECURSIVE landw(_, _)
landw(s, iter_num) ==
    IF iter_num <= 0 THEN s ELSE landw(landw_one_iteration(s), iter_num - 1)

(***************************************************************************)
(* examples/plot_conjugate_gradients.py                                    *)
(***************************************************************************)
\* residuals[i] of a numpy array: negative indices count from the end
InRange(residuals, i) == -Len(residuals) <= i /\ i < Len(residuals)

Item(residuals, i) ==
    IF i >= 0 THEN residuals[i + 1] ELSE residuals[Len(residuals) + i + 1]

index_floor(t) == RFloor(t)

\* Variants of index_ceil: the floor plus one, and the floor itself.
index_ceil_floor_plus_one(t) == RFloor(t) + 1

index_ceil_floor(t) == RFloor(t)

index_ceil(t) == RCeil(t)

IndexError == [raised |-> TRUE, value |-> None]

Return(v) == [raised |-> FALSE, value |-> v]

\* the entries of the trace the function reads
entries_read(t) == {index_floor(t), index_ceil(t)}

calculate_interpolated_residual(residuals, t) ==
    LET alpha  == RSub(t, <<index_floor(t), 1>>)
        weight == RSquare(RSub(One, alpha))
    IN  IF \A i \in entries_read(t) : InRange(residuals, i)
        THEN Return(RAdd(RMul(weight, Item(residuals, index_floor(t))),
                         RMul(RSub(One, weight), Item(residuals, index_ceil(t)))))
        ELSE IndexError

\* A variant of the critical value without the square.
critical_value_unsquared(sample_size, noise_level) ==
    RMul(<<sample_size, 1>>, noise_level)

\* CRITICAL_VALUE = SAMPLE_SIZE * (NOISE_LEVEL**2)
critical_value(sample_size, noise_level) ==
    RMul(<<sample_size, 1>>, RSquare(noise_level))

\* The discrepancy principle: the first index of the trace whose squared
\* residual norm is at most the critical value, or None.
RECURSIVE first_crossing(_, _, _)
first_crossing(residuals, kappa, m) ==
    IF m >= Len(residuals) THEN None
    ELSE IF RLeq(residuals[m + 1], kappa) THEN <<m>>
    ELSE first_crossing(residuals, kappa, m + 1)

early_stopping_index(residuals, sample_size, noise_level) ==
    IF noise_level = None THEN None
    ELSE first_crossing(residuals, critical_value(sample_size, noise_level), 0)

(***************************************************************************)
(* Inputs                                                                  *)
(***************************************************************************)
\* self.tol = 10**(-7)
tol == <<1, 10000000>>

Half == <<1, 2>>
Two  == <<2, 1>>

Operators ==
    { << <<One, Zero>>,  <<Zero, One>>  >>,     \* np.eye(2)
      << <<One, Zero>>,  <<Zero, Half>> >>,     \* np.diag(1/sqrt(indices)), indices 1, 4
      << <<Half, Half>>, <<Zero, Half>> >>,
      << <<Two, Zero>>,  <<Zero, One>>  >>,     \* not contractive
      << <<One>>, <<One>> >>,
      << <<Half, Half>> >> }

ObservationValues == {<<-1, 1>>, Two}

SignalValues == {One}

Vectors(n, S) == [1..n -> S]

Observations(n) == Vectors(n, ObservationValues)

TrueSignals(p) ==
    {None} \cup {[i \in 1..p |-> IF i = 1 THEN v ELSE Zero] : v \in SignalValues}

Indices == {Rat(k, 2) : k \in -1..(2 * MaxIter + 2)}

Traces == UNION {Vectors(n, {<<r, 1>> : r \in 0..MaxResidual}) : n \in 1..MaxTraceLen}

SampleSizes == {1, 2}

NoiseLevels == {None, Zero, Half, One}

NoCall == [raised |-> FALSE, value |-> None]

NoModel ==
    [residuals |-> <<Zero>>, sample_size |-> 1, true_noise_level |-> None,
     critical_value |-> None, early_stopping_index |-> None]

(***************************************************************************)
(* The Landweber instance and the interpolation of its residuals           *)
(***************************************************************************)
Init ==
    /\ \E input_matrix \in Operators :
         \E output_variable \in Observations(Len(input_matrix)) :
           \E true_signal \in TrueSignals(Len(input_matrix[1])) :
             self = landweber(input_matrix, output_variable, true_signal)
    /\ ncalls = 0
    /\ requested = 0
    /\ op = "init"
    /\ index = None
    /\ interpolated_residual = NoCall
    /\ cg = NoModel

Landw(iter_num) ==
    /\ ncalls < MaxCalls
    /\ requested + iter_num <= MaxIter
    /\ self' = landw(self, iter_num)
    /\ ncalls' = ncalls + 1
    /\ requested' = requested + iter_num
    /\ op' = "landw"
    /\ UNCHANGED <<index, interpolated_residual, cg>>

Interpolate(t) ==
    /\ index' = t
    /\ interpolated_residual' = calculate_interpolated_residual(self.residuals, t)
    /\ op' = "interpolate"
    /\ UNCHANGED <<self, ncalls, requested, cg>>

Next ==
    \/ \E iter_num \in 0..MaxIterNum : Landw(iter_num)
    \/ \E t \in Indices : Interpolate(t)

Spec == Init /\ [][Next]_vars

(***************************************************************************)
(* The stopping rule on a residual trace                                   *)
(***************************************************************************)
InitStop ==
    /\ self = landweber(<< <<One>> >>, <<Zero>>, None)
    /\ ncalls = 0
    /\ requested = 0
    /\ op = "init"
    /\ index = None
    /\ interpolated_residual = NoCall
    /\ \E residuals \in Traces, sample_size \in SampleSizes, noise_level \in NoiseLevels :
         cg = [residuals |-> residuals, sample_size |-> sample_size,
               true_noise_level |-> noise_level,
               critical_value |-> None, early_stopping_index |-> None]

conjugate_gradients_gather_all ==
    /\ op = "init"
    /\ cg' = [cg EXCEPT
                !.critical_value =
                    IF cg.true_noise_level = None THEN None
                    ELSE critical_value(cg.sample_size, cg.true_noise_level),
                !.early_stopping_index =
                    early_stopping_index(cg.residuals, cg.sample_size, cg.true_noise_level)]
    /\ op' = "stopping_rule"
    /\ UNCHANGED <<self, ncalls, requested, index, interpolated_residual>>

NextStop == conjugate_gradients_gather_all

SpecStop == InitStop /\ [][NextStop]_vars

(***************************************************************************)
(* Properties                                                              *)
(***************************************************************************)

\* C1: in every reachable state the residuals trace has iter + 1 entries and
\* entry 0 is the squared norm of the observation vector; every step leaves
\* the entries that existed before it unchanged (entries are only appended).
C1_ResidualsAppendOnly ==
    /\ [](/\ Len(self.residuals) = self.iter + 1
          /\ self.residuals[1] = SumSeq(VecSquare(self.output_variable)))
    /\ [][/\ Len(self.residuals') - Len(self.residuals) = self'.iter - self.iter
          /\ \A i \in 1..Len(self.residuals) :
                /\ i <= Len(self.residuals')
                /\ self.residuals'[i] = self.residuals[i]]_vars

C1_Witness ==
    /\ op = "landw"
    /\ ncalls = 2
    /\ Len(self.residuals) = MaxIterNum + 2

\* C2: after any sequence of landw calls the instance is in exactly the state
\* that one landw call with the sum of their iteration counts produces on a
\* new instance built from the same operator, observation and true signal.
C2_IncrementalEquivalence ==
    self = landw(landweber(self.input_matrix, self.output_variable,
                           self.true_signal),
                 requested)

C2_Witness ==
    /\ ncalls = 2
    /\ requested = MaxIterNum + 1
    /\ self.true_signal # None
    /\ self.iter = requested
    /\ Len(self.mse) = requested

\* C4: on an operator A with ||A||_1 * ||A||_inf <= 1 (hence spectral norm
\* at most 1, the contractivity precondition) the residuals trace is
\* non-increasing: residuals[m] >= residuals[m+1] for every m in the trace.
C4_ResidualMonotonicity ==
    LET A == self.input_matrix
        RAbs(a) == <<Abs(a[1]), a[2]>>
        RowSum(i) == SumSeq([j \in 1..Len(A[1]) |-> RAbs(A[i][j])])
        ColSum(j) == SumSeq([i \in 1..Len(A) |-> RAbs(A[i][j])])
        Contractive == \A i \in 1..Len(A), j \in 1..Len(A[1]) :
                          RLeq(RMul(RowSum(i), ColSum(j)), One)
    IN  Contractive =>
            \A m \in 1..(Len(self.residuals) - 1) :
                RLeq(self.residuals[m + 1], self.residuals[m])

C4_Witness ==
    /\ self.input_matrix = << <<One, Zero>>, <<Zero, Half>> >>
    /\ self.iter >= 3
    /\ \A m \in 1..(Len(self.residuals) - 1) :
          RLess(self.residuals[m + 1], self.residuals[m])

\* C5: when a true signal is supplied, the mse trace has as many entries as
\* the residuals trace, iter + 1, from construction onward.
C5_RiskTraceLength ==
    self.true_signal # None =>
        /\ Len(self.mse) = Len(self.residuals)
        /\ Len(self.mse) = self.iter + 1

\* C6: with the identity as operator, after at least one step the estimate
\* equals the observation in every coordinate and stays there.
C6_ExactRecovery ==
    LET A == self.input_matrix
        Identity == /\ Len(A) = Len(A[1])
                    /\ \A i, j \in 1..Len(A) :
                          A[i][j] = IF i = j THEN One ELSE Zero
    IN  (Identity /\ self.iter >= 1) =>
            \A i \in 1..self.para_size :
                self.landw_estimate[i] = self.output_variable[i]

C6_Witness ==
    /\ self.input_matrix = << <<One, Zero>>, <<Zero, One>> >>
    /\ self.iter >= 3
    /\ self.landw_estimate = self.output_variable
    /\ self.residuals[Len(self.residuals)] = Zero

\* C7: interpolating at an integer index k between 0 and the last index of
\* the trace returns exactly residuals[k] and reads no entry beyond k.
C7_InterpolationIdentity ==
    (/\ op = "interpolate"
     /\ index[2] = 1
     /\ 0 <= index[1]
     /\ index[1] < Len(self.residuals)) =>
        /\ interpolated_residual = Return(self.residuals[index[1] + 1])
        /\ \A i \in entries_read(index) : 0 <= i /\ i <= index[1]

C7_Witness ==
    /\ op = "interpolate"
    /\ index[2] = 1
    /\ index[1] = Len(self.residuals) - 1
    /\ index[1] >= 2
    /\ interpolated_residual = Return(self.residuals[index[1] + 1])

\* C8: an interpolation call with an index above the last index of the trace
\* ends in an IndexError and returns no value, a call with an index between 0
\* and the last index returns a value, and no call changes the instance.
C8_InterpolationOutOfRange ==
    [][op' = "interpolate" =>
          LET K == <<Len(self.residuals) - 1, 1>>
          IN  /\ self' = self
              /\ RLess(K, index') =>
                    /\ interpolated_residual'.raised
                    /\ interpolated_residual'.value = None
              /\ (RLeq(Zero, index') /\ RLeq(index', K)) =>
                    /\ ~interpolated_residual'.raised
                    /\ interpolated_residual'.value # None]_vars

C8_Witness ==
    /\ op = "interpolate"
    /\ self.iter >= 1
    /\ index = <<2 * Len(self.residuals) - 1, 2>>
    /\ interpolated_residual = IndexError

\* C9: for an instance built with a true signal, for every iteration i with
\* strong_bias2[i] at least the tolerance, strong_bias2 and weak_bias2 do not
\* increase and strong_variance and weak_variance do not decrease from i to
\* i + 1.
C9_BiasVarianceTradeOff ==
    self.true_signal # None =>
        /\ {"strong_bias2", "strong_variance", "weak_bias2", "weak_variance"}
              \subseteq DOMAIN self
        /\ \A i \in 1..(self.iter - 1) :
              RLeq(tol, self.strong_bias2[i]) =>
                  /\ RLeq(self.strong_bias2[i + 1], self.strong_bias2[i])
                  /\ RLeq(self.strong_variance[i], self.strong_variance[i + 1])
                  /\ RLeq(self.weak_bias2[i + 1], self.weak_bias2[i])
                  /\ RLeq(self.weak_variance[i], self.weak_variance[i + 1])

\* C10: a step from estimate x and counter k sets the estimate to
\* x + A^T (y - A x), the counter to k + 1 and appends the squared norm of
\* y - A x_new; the last entry of residuals is always the squared norm of
\* y - A * (current estimate); A and y never change.
C10_LandweberStep ==
    /\ [](self.residuals[self.iter + 1] =
              SumSeq(VecSquare(VecSub(self.output_variable,
                                      Dot(self.input_matrix, self.landw_estimate)))))
    /\ [][/\ self'.input_matrix = self.input_matrix
          /\ self'.output_variable = self.output_variable
          /\ self'.iter = self.iter + 1 =>
                /\ self'.landw_estimate =
                      VecAdd(self.landw_estimate,
                             Dot(Transpose(self.input_matrix),
                                 VecSub(self.output_variable,
                                        Dot(self.input_matrix, self.landw_estimate))))
                /\ Len(self'.residuals) = Len(self.residuals) + 1
                /\ self'.residuals[Len(self'.residuals)] =
                      SumSeq(VecSquare(VecSub(self.output_variable,
                                              Dot(self.input_matrix,
                                                  self'.landw_estimate))))]_vars

C10_Witness ==
    /\ op = "landw"
    /\ ncalls = 2
    /\ self.iter = 2
    /\ self.residuals[3] # self.residuals[2]
    /\ self.input_matrix = << <<Half, Half>>, <<Zero, Half>> >>

====
